---- MODULE Spec2Model ----
(***************************************************************************)
(* wait-for-netlify-action: src/index.js as a state machine.               *)
(*                                                                         *)
(* The program is one async function run() and three waiters.  Every       *)
(* action below is one task of the Node event loop: a timer tick, the     *)
(* continuation of an awaited fetch, or the continuation of run() after   *)
(* an awaited waiter has settled.  The continuation of run() is a         *)
(* microtask: it runs before any other timer or fetch task, which the     *)
(* guard ~RunResumable on the other actions expresses.                    *)
(*                                                                         *)
(* Strings built with template literals are sequences of their parts.     *)
(***************************************************************************)
EXTENDS Naturals, Integers, Sequences, FiniteSets, TLC

VARIABLES
    pc,          \* position of run(): "start", "awaitCreation", "awaitFallbackProbe",
                 \*   "awaitReadiness", "awaitProbe", "done"
    commitSha,   \* run's const commitSha
    maxReady,    \* run's const MAX_READY_TIMEOUT
    c,           \* poll session of waitForDeployCreation
    r,           \* poll session of waitForReadiness
    p,           \* loop state of the running waitForUrl call
    commitDeployment,  \* the record waitForDeployCreation resolved with
    url,         \* run's let url
    outputs,     \* core.setOutput calls so far: key -> values set, in call order
    failed,      \* core.setFailed messages so far, in call order
    notices,     \* core.notice messages so far
    caught,      \* number of times run's top-level catch was entered
    log          \* history: urls probed, retries logged, interceptors registered; the first
                 \*   matching record a listing fetch returned, whether one returned nothing;
                 \*   the response the task just run has consumed, if it was the
                 \*   continuation of a probe request

vars == <<pc, commitSha, maxReady, c, r, p, commitDeployment, url, outputs, failed, notices, caught, log>>

(***************************************************************************)
(* Bounds of the model                                                     *)
(***************************************************************************)
\* Fetches of one waiter that are in flight at once and still return.  A tick
\* that issues a fetch beyond this takes the oldest one in flight to be lost
\* (it fails or never returns: its continuation changes nothing).
MaxPending == 2
\* Longest listing a fetch returns.
MaxListing == 2

(***************************************************************************)
(* Values                                                                  *)
(***************************************************************************)
undefined == "undefined"
null == "null"

\* ${x} in a template literal: a number is printed, a string (and undefined,
\* null, which the model holds as their printed form) is taken as it is
Num(n) == ToString(n)
Str(x) == x

READY_STATES_noError == {"ready", "current"}
READY_STATES == {"ready", "current", "error"}

\* String.prototype.toLowerCase on the messages the model uses
toLowerCase(s) ==
    CASE s = "Canceled build due to no content change" -> "canceled build due to no content change"
      [] OTHER -> s

\* the lower-case messages that contain "canceled build due to no content change"
ContainsPhrase(s) ==
    s \in { "canceled build due to no content change" }

\* new RegExp(/canceled build due to no content change/i).test(message)
matcher(message) == ContainsPhrase(toLowerCase(message))

CommitSha == "abc123"

Deploy(id, ref, st, msg) ==
    [ id |-> id, name |-> "site", commit_ref |-> ref, state |-> st,
      error_message |-> msg, deploy_ssl_url |-> <<"https://main--site.netlify.app">> ]

\* Deployment records the listing endpoint can return
Deploys ==
    { Deploy("d1", "abc123", "building", null),
      Deploy("d2", "abc123", "error", "Canceled build due to no content change"),
      Deploy("d3", "abc123", "error", "build script failed"),
      Deploy("d4", "fff999", "ready", null),
      Deploy("d5", null, "error", "Canceled build due to no content change") }

Listings == UNION { [1..n -> Deploys] : n \in 0..MaxListing }

\* States the single-deployment endpoint can report
DeployStates == {"building", "ready", "current", "error"}

\* What a fetch of an authenticated endpoint can come to:
\*   data: axios resolved and response.data is body; nothing: it resolved and
\*   response.data is undefined; throw: axios rejected
FetchData(body) == [kind |-> "data", body |-> body]
FetchNothing == [kind |-> "nothing"]
FetchThrow == [kind |-> "throw"]

ListingResults == {FetchData(l) : l \in Listings} \cup {FetchNothing, FetchThrow}
\* (a body without a state field reads as state undefined)
DeployResults ==
    {FetchData([state |-> s]) : s \in DeployStates \cup {undefined}} \cup {FetchNothing, FetchThrow}

\* What a plain axios.get(url) can come to before the interceptors run
ProbeResults ==
    { [kind |-> "ok", status |-> 200],
      [kind |-> "error", status |-> 401],
      [kind |-> "error", status |-> 404],
      [kind |-> "error", status |-> 500],
      [kind |-> "network"] }

\* Promise states
Pending == [kind |-> "pending"]
Resolved(v) == [kind |-> "resolved", value |-> v]
Rejected(e) == [kind |-> "rejected", error |-> e]
\* resolve / reject of a promise: the first settlement stands
Settle_lastWins(outcome, new) == new
Settle(outcome, new) == IF outcome.kind = "pending" THEN new ELSE outcome

\* Thrown values: a string (reject("...")) or an Error object
StringError(text) == [type |-> "string", value |-> text]
ErrorObject(message) == [type |-> "object", message |-> <<Str(message)>>]

Min(a, b) == IF a < b THEN a ELSE b

(***************************************************************************)
(* Constants of the program                                                *)
(***************************************************************************)
CreationIncrement == 15
ReadinessIncrement == 30
MAX_CREATE_TIMEOUT == 60 * 5
MAX_WAIT_TIMEOUT == 60 * 15
DefaultReadyTimeout == 60
FallbackTimeout == 3
RetrySeconds == 3

\* Number(core.getInput("max_timeout")) || 60
Number(s) ==
    CASE s = "" -> [nan |-> FALSE, n |-> 0]
      [] s = "7" -> [nan |-> FALSE, n |-> 7]
      [] OTHER -> [nan |-> TRUE, n |-> 0]
MAX_READY_TIMEOUT(input) ==
    IF Number(input).nan \/ Number(input).n = 0 THEN DefaultReadyTimeout ELSE Number(input).n

MaxTimeoutInputs == {"", "7", "abc"}

\* What run() can find in its environment: whether NETLIFY_TOKEN, the commit of
\* the github context and the input site_id are there, and the input max_timeout
Environments == [token : BOOLEAN, sha : BOOLEAN, site : BOOLEAN, max_timeout : MaxTimeoutInputs]

(***************************************************************************)
(* Messages                                                                *)
(***************************************************************************)
CreationTimeoutMessage(MAX_TIMEOUT) ==
    <<"Timeout reached: Deployment was not created within ", Num(MAX_TIMEOUT), " seconds.">>
CreationNotFoundMessage == <<"Failed to get deployments for site">>
ReadinessTimeoutMessage(MAX_TIMEOUT, state) ==
    <<"Timeout reached: Deployment was not ready within ", Num(MAX_TIMEOUT),
      " seconds. Last known deployment state: ", Str(state), ".">>
ProbeTimeoutMessage(u) == <<"Timeout reached: Unable to connect to ">> \o u
NotFound == <<"not found">>
TokenMissingMessage ==
    <<"Please set NETLIFY_TOKEN env variable to your Netlify Personal Access Token secret">>
ShaMissingMessage == <<"Could not determine GitHub commit">>
SiteMissingMessage == <<"Required field 'site_id' was not provided">>
SkipNotice == <<"Skipping: no deployment available for this branch">>

DeployUrl_nameFirst(d) == <<"https://", Str(d.name), "--", Str(d.id), ".netlify.app">>
DeployUrl(d) == <<"https://", Str(d.id), "--", Str(d.name), ".netlify.app">>

(***************************************************************************)
(* Initial state                                                           *)
(***************************************************************************)
NoSession == [elapsed |-> 0, timer |-> FALSE, pending |-> 0, fetches |-> 0,
              state |-> undefined, outcome |-> Pending]
NoProbe == [phase |-> "idle", url |-> <<>>, budget |-> 0, flag |-> FALSE, i |-> 0,
            outcome |-> Pending]
NoDeployment ==
    [ id |-> undefined, name |-> undefined, commit_ref |-> undefined, state |-> undefined,
      error_message |-> undefined, deploy_ssl_url |-> <<undefined>> ]

\* the response of axios.get that a task has consumed: how the request ended
\* and the HTTP status it carried, before any interceptor saw it
NoFetch == [kind |-> "none", status |-> 0]
Consumed(res) == [kind |-> res.kind, status |-> IF res.kind = "network" THEN 0 ELSE res.status]
\* a task that is not the continuation of axios.get
Task(l) == [l EXCEPT !.last = NoFetch]

\* the values core.setOutput was called with, per key, in call order
NoOutputs == [deploy_id |-> <<>>, url |-> <<>>, nopreview |-> <<>>]

Init ==
    /\ pc = "start"
    /\ commitSha = undefined
    /\ maxReady = 0
    /\ c = NoSession
    /\ r = NoSession
    /\ p = NoProbe
    /\ commitDeployment = NoDeployment
    /\ url = <<>>
    /\ outputs = NoOutputs
    /\ failed = <<>>
    /\ notices = <<>>
    /\ caught = 0
    /\ log = [probes |-> <<>>, retries |-> 0, interceptors |-> 0,
              match |-> NoDeployment, nothing |-> FALSE, last |-> NoFetch]

(***************************************************************************)
(* run(): lines 112-135, up to the first await                             *)
(***************************************************************************)
\* lines 124-134: one setFailed per missing setting, and no return
ConfigFailures_firstOnly(e) ==
    IF ~e.token THEN <<TokenMissingMessage>>
    ELSE IF ~e.sha THEN <<ShaMissingMessage>>
    ELSE IF ~e.site THEN <<SiteMissingMessage>> ELSE <<>>
ConfigFailures(e) ==
    (IF ~e.token THEN <<TokenMissingMessage>> ELSE <<>>)
    \o (IF ~e.sha THEN <<ShaMissingMessage>> ELSE <<>>)
    \o (IF ~e.site THEN <<SiteMissingMessage>> ELSE <<>>)

\* the continuation of run() is ready: the promise it awaits has settled
RunResumable ==
    \/ pc = "awaitCreation" /\ c.outcome.kind # "pending"
    \/ pc = "awaitFallbackProbe" /\ p.outcome.kind # "pending"
    \/ pc = "awaitReadiness" /\ r.outcome.kind # "pending"
    \/ pc = "awaitProbe" /\ p.outcome.kind # "pending"

\* Once run() has taken a waiter's outcome and the timer is cleared, no code
\* reads the closure's counters again: the model drops them
Forget(s) == IF s.timer THEN s ELSE [s EXCEPT !.elapsed = 0, !.fetches = 0]

\* setInterval(...) of a waiter: a fresh session with its timer running
StartSession == [NoSession EXCEPT !.timer = TRUE]

run_start ==
    /\ pc = "start"
    /\ \E e \in Environments :
         /\ commitSha' = (IF e.sha THEN CommitSha ELSE undefined)
         /\ maxReady' = MAX_READY_TIMEOUT(e.max_timeout)
         /\ failed' = failed \o ConfigFailures(e)
    /\ c' = StartSession
    /\ pc' = "awaitCreation"
    /\ log' = Task(log)
    /\ UNCHANGED <<r, p, commitDeployment, url, outputs, notices, caught>>

(***************************************************************************)
(* waitForDeployCreation: lines 15-49                                      *)
(***************************************************************************)
\* line 24
CreationTimedOut_late(elapsedTimeSeconds, MAX_TIMEOUT) == elapsedTimeSeconds > MAX_TIMEOUT
CreationTimedOut(elapsedTimeSeconds, MAX_TIMEOUT) == elapsedTimeSeconds >= MAX_TIMEOUT

\* getNetlifyUrl(url) issued by a tick: one more fetch in flight
getNetlifyUrl(s) == [s EXCEPT !.pending = Min(@ + 1, MaxPending), !.fetches = @ + 1]

\* lines 22-31: one tick of the interval, up to its await
CreationTick_noReject(s, MAX_TIMEOUT) ==
    LET e == s.elapsed + CreationIncrement IN
    IF CreationTimedOut(e, MAX_TIMEOUT)
    THEN [s EXCEPT !.elapsed = e, !.timer = FALSE]
    ELSE [s EXCEPT !.elapsed = e, !.pending = Min(@ + 1, MaxPending), !.fetches = @ + 1]
CreationTick(s, MAX_TIMEOUT) ==
    LET e == s.elapsed + CreationIncrement IN
    IF CreationTimedOut(e, MAX_TIMEOUT)
    THEN [s EXCEPT !.elapsed = e, !.timer = FALSE,
                   !.outcome = Settle(@, Rejected(StringError(CreationTimeoutMessage(MAX_TIMEOUT))))]
    ELSE getNetlifyUrl([s EXCEPT !.elapsed = e])

\* netlifyDeployments.find((d) => d.commit_ref === commitSha): the index of the
\* first match, 0 when there is none
find_first(netlifyDeployments, sha) == IF Len(netlifyDeployments) = 0 THEN 0 ELSE 1
find(netlifyDeployments, sha) ==
    LET hits == {i \in 1..Len(netlifyDeployments) : netlifyDeployments[i].commit_ref = sha}
    IN IF hits = {} THEN 0 ELSE CHOOSE i \in hits : \A j \in hits : i <= j

\* lines 31-46: the rest of the tick, once its fetch has come back
CreationFetched_throwRejects(s, res, sha) ==
    LET s1 == [s EXCEPT !.pending = @ - 1] IN
    CASE res.kind = "throw" ->
            [s1 EXCEPT !.timer = FALSE,
                       !.outcome = Settle(@, Rejected(StringError(<<"Request failed">>)))]
      [] res.kind = "nothing" ->
            [s1 EXCEPT !.outcome = Settle(@, Rejected(StringError(CreationNotFoundMessage)))]
      [] res.kind = "data" ->
            LET i == find(res.body, sha) IN
            IF i # 0
            THEN [s1 EXCEPT !.timer = FALSE, !.outcome = Settle(@, Resolved(res.body[i]))]
            ELSE s1
CreationFetched(s, res, sha) ==
    LET s1 == [s EXCEPT !.pending = @ - 1] IN
    CASE res.kind = "throw" -> s1
      [] res.kind = "nothing" ->
            [s1 EXCEPT !.outcome = Settle(@, Rejected(StringError(CreationNotFoundMessage)))]
      [] res.kind = "data" ->
            LET i == find(res.body, sha) IN
            IF i # 0
            THEN [s1 EXCEPT !.timer = FALSE, !.outcome = Settle(@, Resolved(res.body[i]))]
            ELSE s1

\* what the listing fetches have returned so far: the first record with the
\* commit of the first listing that holds one, and whether a fetch had no data
Observed(l, res, sha) ==
    CASE res.kind = "nothing" -> [l EXCEPT !.nothing = TRUE]
      [] res.kind = "data" /\ l.match = NoDeployment
                           /\ \E i \in 1..Len(res.body) : res.body[i].commit_ref = sha ->
            LET first == CHOOSE i \in 1..Len(res.body) :
                            /\ res.body[i].commit_ref = sha
                            /\ \A j \in 1..(i - 1) : res.body[j].commit_ref # sha
            IN [l EXCEPT !.match = res.body[first]]
      [] OTHER -> l

waitForDeployCreation_tick ==
    /\ c.timer
    /\ ~RunResumable
    /\ c' = CreationTick(c, MAX_CREATE_TIMEOUT)
    /\ log' = Task(log)
    /\ UNCHANGED <<pc, commitSha, maxReady, r, p, commitDeployment, url, outputs, failed, notices, caught>>

waitForDeployCreation_fetched ==
    /\ c.pending > 0
    /\ ~RunResumable
    /\ \E res \in ListingResults :
         /\ c' = CreationFetched(c, res, commitSha)
         /\ log' = Task(Observed(log, res, commitSha))
    /\ UNCHANGED <<pc, commitSha, maxReady, r, p, commitDeployment, url, outputs, failed, notices, caught>>

(***************************************************************************)
(* waitForReadiness: lines 51-80                                           *)
(***************************************************************************)
\* line 61
ReadinessTimedOut(elapsedTimeSeconds, MAX_TIMEOUT) == elapsedTimeSeconds >= MAX_TIMEOUT

\* lines 59-68: one tick of the interval, up to its await
ReadinessTick_fetchFirst(s, MAX_TIMEOUT) ==
    LET e == s.elapsed + ReadinessIncrement IN
    IF ReadinessTimedOut(e, MAX_TIMEOUT)
    THEN getNetlifyUrl([s EXCEPT !.elapsed = e, !.timer = FALSE,
                   !.outcome = Settle(@, Rejected(StringError(ReadinessTimeoutMessage(MAX_TIMEOUT, s.state))))])
    ELSE getNetlifyUrl([s EXCEPT !.elapsed = e])
ReadinessTick(s, MAX_TIMEOUT) ==
    LET e == s.elapsed + ReadinessIncrement IN
    IF ReadinessTimedOut(e, MAX_TIMEOUT)
    THEN [s EXCEPT !.elapsed = e, !.timer = FALSE,
                   !.outcome = Settle(@, Rejected(StringError(ReadinessTimeoutMessage(MAX_TIMEOUT, s.state))))]
    ELSE getNetlifyUrl([s EXCEPT !.elapsed = e])

\* lines 68-77: the rest of the tick, once its fetch has come back.  With no
\* data, deploy.state throws a TypeError inside the callback: nothing is set.
ReadinessFetched(s, res) ==
    LET s1 == [s EXCEPT !.pending = @ - 1] IN
    CASE res.kind = "throw" -> s1
      [] res.kind = "nothing" -> s1
      [] res.kind = "data" ->
            IF res.body.state \in READY_STATES
            THEN [s1 EXCEPT !.state = res.body.state, !.timer = FALSE,
                            !.outcome = Settle(@, Resolved(undefined))]
            ELSE [s1 EXCEPT !.state = res.body.state]

waitForReadiness_tick ==
    /\ r.timer
    /\ ~RunResumable
    /\ r' = ReadinessTick(r, MAX_WAIT_TIMEOUT)
    /\ log' = Task(log)
    /\ UNCHANGED <<pc, commitSha, maxReady, c, p, commitDeployment, url, outputs, failed, notices, caught>>

waitForReadiness_fetched ==
    /\ r.pending > 0
    /\ ~RunResumable
    /\ \E res \in DeployResults :
         /\ r' = ReadinessFetched(r, res)
         /\ log' = Task(log)
    /\ UNCHANGED <<pc, commitSha, maxReady, c, p, commitDeployment, url, outputs, failed, notices, caught>>

(***************************************************************************)
(* waitForUrl: lines 82-110                                                *)
(***************************************************************************)
\* lines 83-94, the response interceptor: TRUE when axios.get(url) resolves.
\* A failure without a response makes error.response.status throw, which
\* rejects as well.
Intercept_rejectsAll(res) == res.kind = "ok"
Intercept(res) ==
    CASE res.kind = "ok" -> TRUE
      [] res.kind = "error" -> res.status = 401
      [] res.kind = "network" -> FALSE

\* line 97: i < iterations, with iterations = MAX_TIMEOUT / 3
LoopGuard_inclusive(i, MAX_TIMEOUT) == RetrySeconds * i <= MAX_TIMEOUT
LoopGuard(i, MAX_TIMEOUT) == RetrySeconds * i < MAX_TIMEOUT

\* lines 97-99 and 109: the loop test; an attempt is issued, or the loop is
\* over and the call returns
LoopEnter_throws(w) ==
    IF LoopGuard(w.i, w.budget)
    THEN [w EXCEPT !.phase = "fetching"]
    ELSE [w EXCEPT !.phase = "idle",
                   !.outcome = Rejected(StringError(ProbeTimeoutMessage(w.url)))]
LoopEnter(w) ==
    IF LoopGuard(w.i, w.budget)
    THEN [w EXCEPT !.phase = "fetching"]
    ELSE [w EXCEPT !.phase = "idle", !.outcome = Resolved(undefined)]

\* line 109: what setFailed is called with when the loop is over
LoopFailures(w) ==
    IF LoopGuard(w.i, w.budget) THEN <<>> ELSE <<ProbeTimeoutMessage(w.url)>>

\* lines 82-99: a call of waitForUrl, up to its first await
waitForUrl(u, MAX_TIMEOUT, flag) ==
    LoopEnter([phase |-> "idle", url |-> u, budget |-> MAX_TIMEOUT, flag |-> flag, i |-> 0,
               outcome |-> Pending])

\* the history a call or a step of waitForUrl leaves
ProbeLog(l, w, calls) ==
    [l EXCEPT !.probes = IF w.phase = "fetching" THEN Append(@, w.url) ELSE @,
              !.interceptors = @ + calls]

\* lines 99-106: the attempt has come back
ProbeFetched(w, res) ==
    IF Intercept(res)
    THEN [w EXCEPT !.phase = "idle", !.outcome = Resolved(undefined)]
    ELSE IF w.flag
         THEN [w EXCEPT !.phase = "idle", !.outcome = Rejected(StringError(NotFound))]
         ELSE [w EXCEPT !.phase = "sleeping"]

waitForUrl_fetched ==
    /\ p.phase = "fetching"
    /\ ~RunResumable
    /\ \E res \in ProbeResults :
         /\ p' = ProbeFetched(p, res)
         /\ log' = [log EXCEPT !.retries = IF p'.phase = "sleeping" THEN @ + 1 ELSE @,
                                !.last = Consumed(res)]
    /\ UNCHANGED <<pc, commitSha, maxReady, c, r, commitDeployment, url, outputs, failed, notices, caught>>

\* line 106 is over: i++, the loop test, the next attempt or line 109
waitForUrl_slept ==
    /\ p.phase = "sleeping"
    /\ ~RunResumable
    /\ p' = LoopEnter([p EXCEPT !.i = @ + 1])
    /\ failed' = failed \o LoopFailures([p EXCEPT !.i = @ + 1])
    /\ log' = Task(ProbeLog(log, p', 0))
    /\ UNCHANGED <<pc, commitSha, maxReady, c, r, commitDeployment, url, outputs, notices, caught>>

(***************************************************************************)
(* run(): lines 139-183                                                    *)
(***************************************************************************)
\* line 182
CatchMessage_alwaysMessage(error) ==
    IF error.type = "string" THEN <<undefined>> ELSE error.message
CatchMessage(error) == IF error.type = "string" THEN error.value ELSE error.message

\* lines 181-183
Catch(error) ==
    /\ failed' = Append(failed, CatchMessage(error))
    /\ caught' = caught + 1
    /\ pc' = "done"

\* lines 168-177: publish the outputs and start the readiness wait
Publish_idOnly(o, d, u) == [o EXCEPT !.deploy_id = Append(@, d.id)]
Publish(o, d, u) == [o EXCEPT !.deploy_id = Append(@, d.id), !.url = Append(@, u)]

\* line 150
FallbackUrl_keepsDeployUrl(d) == DeployUrl(d)
FallbackUrl(d) == d.deploy_ssl_url

\* line 160
SkipOutputs_alsoUrl(o) == [o EXCEPT !.nopreview = Append(@, 1), !.url = Append(@, url)]
SkipOutputs(o) == [o EXCEPT !.nopreview = Append(@, 1)]

\* line 161: the catch of the fallback probe returns from run()
SkipReturns_fallsThrough == FALSE
SkipReturns == TRUE

\* lines 145-166: where run() goes with the created deployment
Branch_noThrow(d) ==
    IF d.state = "error" /\ matcher(Str(d.error_message)) THEN "fallback" ELSE "ok"
Branch(d) ==
    IF d.state = "error"
    THEN IF matcher(Str(d.error_message)) THEN "fallback" ELSE "throw"
    ELSE "ok"

\* lines 139-177, after waitForDeployCreation has settled
run_afterCreation ==
    /\ pc = "awaitCreation"
    /\ c.outcome.kind # "pending"
    /\ IF c.outcome.kind = "rejected"
       THEN /\ Catch(c.outcome.error)
            /\ log' = Task(log)
            /\ UNCHANGED <<r, p, commitDeployment, url, outputs>>
       ELSE LET d == c.outcome.value IN
            /\ commitDeployment' = d
            /\ CASE Branch(d) = "fallback" ->
                      /\ url' = FallbackUrl(d)
                      /\ p' = waitForUrl(url', FallbackTimeout, TRUE)
                      /\ log' = Task(ProbeLog(log, p', 1))
                      /\ failed' = failed \o LoopFailures(p')
                      /\ pc' = "awaitFallbackProbe"
                      /\ UNCHANGED <<r, outputs, caught>>
                 [] Branch(d) = "throw" ->
                      /\ url' = DeployUrl(d)
                      /\ Catch(ErrorObject(d.error_message))
                      /\ log' = Task(log)
                      /\ UNCHANGED <<r, p, outputs>>
                 [] Branch(d) = "ok" ->
                      /\ url' = DeployUrl(d)
                      /\ outputs' = Publish(outputs, d, url')
                      /\ r' = StartSession
                      /\ pc' = "awaitReadiness"
                      /\ log' = Task(log)
                      /\ UNCHANGED <<p, failed, caught>>
    /\ c' = Forget(c)
    /\ UNCHANGED <<commitSha, maxReady, notices>>

\* lines 154-177, after the fallback probe has settled
run_afterFallbackProbe ==
    /\ pc = "awaitFallbackProbe"
    /\ p.outcome.kind # "pending"
    /\ LET skip == p.outcome.kind = "rejected"
           o == IF skip THEN SkipOutputs(outputs) ELSE outputs
       IN /\ notices' = IF skip THEN Append(notices, SkipNotice) ELSE notices
          /\ IF skip /\ SkipReturns
             THEN /\ outputs' = o
                  /\ pc' = "done"
                  /\ UNCHANGED r
             ELSE /\ outputs' = Publish(o, commitDeployment, url)
                  /\ r' = StartSession
                  /\ pc' = "awaitReadiness"
    /\ log' = Task(log)
    /\ UNCHANGED <<commitSha, maxReady, c, p, commitDeployment, url, failed, caught>>

\* lines 174-180, after waitForReadiness has settled
run_afterReadiness ==
    /\ pc = "awaitReadiness"
    /\ r.outcome.kind # "pending"
    /\ IF r.outcome.kind = "rejected"
       THEN /\ Catch(r.outcome.error)
            /\ log' = Task(log)
            /\ UNCHANGED p
       ELSE /\ p' = waitForUrl(url, maxReady, FALSE)
            /\ log' = Task(ProbeLog(log, p', 1))
            /\ failed' = failed \o LoopFailures(p')
            /\ pc' = "awaitProbe"
            /\ UNCHANGED caught
    /\ r' = Forget(r)
    /\ UNCHANGED <<commitSha, maxReady, c, commitDeployment, url, outputs, notices>>

\* lines 180-184, after the probe has settled
run_afterProbe ==
    /\ pc = "awaitProbe"
    /\ p.outcome.kind # "pending"
    /\ IF p.outcome.kind = "rejected"
       THEN Catch(p.outcome.error)
       ELSE /\ pc' = "done"
            /\ UNCHANGED <<failed, caught>>
    /\ log' = Task(log)
    /\ UNCHANGED <<commitSha, maxReady, c, r, p, commitDeployment, url, outputs, notices>>

Next ==
    \/ run_start
    \/ waitForDeployCreation_tick
    \/ waitForDeployCreation_fetched
    \/ run_afterCreation
    \/ waitForUrl_fetched
    \/ waitForUrl_slept
    \/ run_afterFallbackProbe
    \/ waitForReadiness_tick
    \/ waitForReadiness_fetched
    \/ run_afterReadiness
    \/ run_afterProbe

Spec == Init /\ [][Next]_vars

\* The event loop runs every task that is ready: a timer that is set fires, the
\* continuation of run() runs once the awaited promise has settled, a sleep
\* ends.  Probe fetches are taken to complete.  Nothing is assumed about the
\* fetches of the two waiters: they may never return.
LiveSpec ==
    /\ Spec
    /\ WF_vars(run_start)
    /\ WF_vars(waitForDeployCreation_tick)
    /\ WF_vars(waitForReadiness_tick)
    /\ WF_vars(run_afterCreation)
    /\ WF_vars(run_afterFallbackProbe)
    /\ WF_vars(run_afterReadiness)
    /\ WF_vars(run_afterProbe)
    /\ WF_vars(waitForUrl_fetched)
    /\ WF_vars(waitForUrl_slept)

(***************************************************************************)
(* Properties                                                              *)
(***************************************************************************)
\* the error messages of Deploys that hold the no-content-change phrase, in any case
NoContentMessages ==
    { "Canceled build due to no content change" }

\* run() has a created deployment and it is on the no-content-change path
NoContentPath ==
    /\ commitDeployment.state = "error"
    /\ commitDeployment.error_message \in NoContentMessages

\* run() has a created deployment in state error with another message
ErrorPath ==
    /\ commitDeployment.state = "error"
    /\ commitDeployment.error_message \notin NoContentMessages

ConfigMessages == {TokenMissingMessage, ShaMissingMessage, SiteMissingMessage}

OnlyConfigFailures == \A i \in 1..Len(failed) : failed[i] \in ConfigMessages

C3_SoftSkip ==
    /\ outputs.nopreview # <<>> =>
          /\ NoContentPath
          /\ outputs.nopreview = <<1>>
          /\ pc = "done"
          /\ caught = 0
          /\ OnlyConfigFailures
          /\ outputs.deploy_id = <<>>
          /\ outputs.url = <<>>
          /\ notices = <<SkipNotice>>
    /\ (NoContentPath /\ pc = "done" /\ r = NoSession) => outputs.nopreview = <<1>>

\* C3 witness: the fallback probe failed and the run has ended with nopreview.
C3_Witness ==
    /\ pc = "done"
    /\ outputs.nopreview = <<1>>
    /\ p.outcome = Rejected(StringError(NotFound))

\* C4: a created deployment in state error whose message does not hold the
\* phrase ends the run with the failure sink receiving exactly that message,
\* with no readiness fetch, no probe and no output.
C4_DeploymentError ==
    ErrorPath =>
        /\ pc = "done"
        /\ caught = 1
        /\ Len(failed) >= 1
        /\ failed[Len(failed)] = <<commitDeployment.error_message>>
        /\ \A i \in 1..(Len(failed) - 1) : failed[i] \in ConfigMessages
        /\ r = NoSession
        /\ p = NoProbe
        /\ log.probes = <<>>
        /\ outputs = NoOutputs

\* C4 witness: the run has ended on the message "build script failed".
C4_Witness ==
    /\ ErrorPath
    /\ pc = "done"
    /\ failed = <<<<"build script failed">>>>

\* C5 as stated: when the Creation Waiter or the Readiness Waiter has settled
\* (success, NotFound or Timeout), its interval timer has been cleared.
C5_TimerClearedOnSettle ==
    /\ c.outcome.kind # "pending" => ~c.timer
    /\ r.outcome.kind # "pending" => ~r.timer

\* C6: while no fetched listing holds a record of the target commit (and every
\* fetch that returned, returned a collection), the Creation Waiter does not
\* resolve, and it is rejected exactly when the elapsed time, 15 a tick, has
\* reached the budget, with the Timeout message that states the budget.
C6_TimeoutWithoutMatch ==
    (pc = "awaitCreation" /\ log.match = NoDeployment /\ ~log.nothing) =>
        /\ c.outcome.kind # "resolved"
        /\ c.outcome.kind = "rejected" <=> c.elapsed >= 300
        /\ c.elapsed = 15 * (c.fetches + (IF c.outcome.kind = "rejected" THEN 1 ELSE 0))
        /\ c.outcome.kind = "rejected" =>
              /\ c.elapsed = 300
              /\ c.outcome.error.type = "string"
              /\ c.outcome.error.value =
                    <<"Timeout reached: Deployment was not created within ", "300", " seconds.">>

\* C6 witness: the Creation Waiter has timed out after 19 listing fetches that
\* held no record of the commit.
C6_Witness ==
    /\ pc = "awaitCreation"
    /\ log.match = NoDeployment
    /\ ~log.nothing
    /\ c.outcome.kind = "rejected"
    /\ c.fetches = 19
    /\ c.pending = 0

\* C7: when a listing with a record of the target commit comes back while the
\* Creation Waiter is unsettled, it resolves with the first such record and
\* clears its timer; once resolved it stays resolved with that record, its
\* timer stays cleared and it issues no further listing fetch.
C7_ResolvesWithMatch ==
    [][ /\ (c.outcome.kind = "pending" /\ log.match = NoDeployment /\ log'.match # NoDeployment) =>
              /\ c'.outcome = Resolved(log'.match)
              /\ c'.outcome.value.commit_ref = commitSha
              /\ ~c'.timer
        /\ c.outcome.kind = "resolved" =>
              /\ c'.outcome = c.outcome
              /\ ~c'.timer
              /\ c'.fetches <= c.fetches
              /\ c'.pending <= c.pending ]_vars

\* C7 witness: the Creation Waiter resolved on its third fetch with the record
\* of the commit, its timer cleared, an earlier fetch still in flight.
C7_Witness ==
    /\ pc = "awaitCreation"
    /\ c.outcome.kind = "resolved"
    /\ c.outcome.value.commit_ref = "abc123"
    /\ c.outcome.value = log.match
    /\ ~c.timer
    /\ c.fetches = 3
    /\ c.pending = 1

\* C8 as stated: once run() has moved past a waiter, nothing of that waiter
\* remains: no timer that can tick and no fetch in flight, while a later
\* waiter is active and after the run has ended.
C8_NothingOutlivesItsWaiter ==
    /\ pc \in {"awaitFallbackProbe", "awaitReadiness", "awaitProbe", "done"} =>
          ~c.timer /\ c.pending = 0
    /\ pc \in {"awaitProbe", "done"} => ~r.timer /\ r.pending = 0

\* C9: under fairness of the timer ticks and of run()'s continuations, and
\* with every probe fetch completing, the Creation Waiter and the Readiness
\* Waiter settle whatever their fetches do, both timers end up cleared, and
\* the run reaches its end.
C9_Terminates ==
    /\ (pc = "awaitCreation") ~> (c.outcome.kind # "pending")
    /\ (pc = "awaitReadiness") ~> (r.outcome.kind # "pending")
    /\ <>[](~c.timer /\ ~r.timer)
    /\ <>(pc = "done")

\* C9 witness: the run has ended on the Timeout of the Creation Waiter while
\* listing fetches had not returned.
C9_Witness ==
    /\ pc = "done"
    /\ c.pending > 0
    /\ ~c.timer
    /\ caught = 1
    /\ failed[Len(failed)] = CreationTimeoutMessage(MAX_CREATE_TIMEOUT)

\* C10: the Readiness Waiter resolves with no payload on the fetch that
\* reports ready, current or error; unsettled at 900 seconds it rejects with
\* the Timeout message that holds the last state observed, "undefined" when
\* none was.
C10_Readiness ==
    /\ [](pc = "awaitReadiness" =>
            /\ r.elapsed >= 900 => r.outcome.kind # "pending"
            /\ r.outcome.kind = "resolved" =>
                  /\ r.state \in {"ready", "current", "error"}
                  /\ r.outcome.value = undefined
                  /\ ~r.timer
            /\ r.outcome.kind = "rejected" =>
                  /\ r.elapsed = 900
                  /\ r.state \notin {"ready", "current", "error"}
                  /\ r.outcome.error.type = "string"
                  /\ r.outcome.error.value =
                        <<"Timeout reached: Deployment was not ready within ", "900",
                          " seconds. Last known deployment state: ", r.state, ".">>)
    /\ [][ ( /\ r.outcome.kind = "pending"
             /\ r'.pending = r.pending - 1
             /\ r'.state \in {"ready", "current", "error"} ) =>
              /\ r'.outcome = Resolved(undefined)
              /\ ~r'.timer ]_vars

\* C10 witness: the Readiness Waiter has timed out with no state observed.
C10_Witness ==
    /\ pc = "awaitReadiness"
    /\ r.outcome.kind = "rejected"
    /\ r.outcome.error.value[4] = "undefined"
    /\ r.fetches = 29


\* lines 96-97: the number of i with i < MAX_TIMEOUT / 3, the slots of a call
Slots(MAX_TIMEOUT) == (MAX_TIMEOUT + RetrySeconds - 1) \div RetrySeconds

\* the requests of the call of waitForUrl that p holds: those of the history
\* without the one request of an earlier call against the fallback URL
CallProbes == Len(log.probes) - (IF ~p.flag /\ NoContentPath THEN 1 ELSE 0)

\* line 109 was reached: the call is over with every slot used
Exhausted(w) == w.outcome = Resolved(undefined) /\ ~LoopGuard(w.i, w.budget)

\* line 101 was reached: the call is over with an attempt that succeeded
Connected(w) == w.outcome = Resolved(undefined) /\ LoopGuard(w.i, w.budget)

\* C11 as stated, in its case k = the slot limit: a call that has logged no
\* more retries than it has slots can still return success on a later fetch,
\* so it has not given up.
C11_SuccessAfterAnyFailuresUpToLimit ==
    (p # NoProbe /\ ~p.flag /\ log.retries <= Slots(p.budget)) => ~Exhausted(p)

\* C11 as amended: a call of the Reachability Prober issues at most
\* ceil(budget / 3) requests; a first request that succeeds returns with no
\* retry; k failures followed by a success return success after exactly k
\* retries and k + 1 requests, for k below the slot limit; when every slot has
\* failed the call has logged as many retries as it has slots and gives up
\* without another request; with the single-attempt flag a first request that
\* fails rejects with "not found" after exactly one request, no sleep and no
\* retry.
C11_ProbeSlots ==
    p # NoProbe =>
        /\ CallProbes <= Slots(p.budget)
        /\ p.phase = "fetching" => CallProbes = p.i + 1 /\ log.retries = p.i
        /\ p.phase = "sleeping" => CallProbes = p.i + 1 /\ log.retries = p.i + 1
        /\ Connected(p) =>
              /\ p.i < Slots(p.budget)
              /\ log.retries = p.i
              /\ CallProbes = p.i + 1
        /\ Exhausted(p) =>
              /\ ~p.flag
              /\ log.retries = Slots(p.budget)
              /\ CallProbes = Slots(p.budget)
        /\ p.outcome.kind = "rejected" =>
              /\ p.flag
              /\ p.outcome.error = StringError(NotFound)
              /\ p.i = 0
              /\ CallProbes = 1
        /\ p.flag => log.retries = 0 /\ p.phase # "sleeping"

\* C11 is reached: with a budget of 7 seconds (3 slots) the first two requests
\* failed and the third succeeded
C11_Witness ==
    /\ Connected(p)
    /\ ~p.flag
    /\ p.budget = 7
    /\ log.retries = 2
    /\ CallProbes = 3

\* the loop of the call is over: every slot was used and none succeeded
GaveUp(w) == w # NoProbe /\ w.phase = "idle" /\ ~LoopGuard(w.i, w.budget)

\* C12: when every slot of the prober is used up without a success and the
\* single-attempt flag is not set, the prober hands the message "Timeout
\* reached: Unable to connect to <url>" to setFailed and completes normally: it
\* neither rejects nor throws, so run() goes on to its end and the top-level
\* catch is not entered; the message is reported in this case only.
C12_TimeoutReportedNotThrown ==
    /\ GaveUp(p) =>
          /\ ~p.flag
          /\ p.outcome = Resolved(undefined)
          /\ pc \in {"awaitProbe", "done"}
          /\ caught = 0
          /\ failed # <<>>
          /\ failed[Len(failed)] = ProbeTimeoutMessage(url)
          /\ \A i \in 1..(Len(failed) - 1) : failed[i] \in ConfigMessages
    /\ \A i \in 1..Len(failed) :
          failed[i] = ProbeTimeoutMessage(url) => GaveUp(p) /\ i = Len(failed)

\* C12 is reached: a run is over after the readiness probe used up its slots;
\* the timeout is the one failure reported and the catch was not entered
C12_Witness ==
    /\ pc = "done"
    /\ GaveUp(p)
    /\ p.budget = DefaultReadyTimeout
    /\ failed = <<ProbeTimeoutMessage(url)>>
    /\ caught = 0
    /\ outputs.deploy_id # <<>>

\* C13: a probe request that fails with HTTP status 401 is turned into a
\* success before the prober's success/failure branch sees it, so the prober
\* returns success on that attempt, with no retry logged and nothing reported;
\* a probe request that fails in any other way (another status, no response at
\* all) is a failed attempt: a retry, or "not found" in single-attempt mode.
C13_UnauthorizedIsSuccess ==
    [][ (p.phase = "fetching" /\ log'.last # NoFetch) =>
          IF log'.last.kind = "ok" \/ log'.last.status = 401
          THEN /\ p'.outcome = Resolved(undefined)
               /\ p'.phase = "idle"
               /\ p'.i = p.i
               /\ log'.retries = log.retries
               /\ failed' = failed
          ELSE /\ p'.outcome.kind # "resolved"
               /\ p.flag => p'.outcome = Rejected(StringError(NotFound))
               /\ ~p.flag => /\ p'.phase = "sleeping"
                             /\ p'.outcome = Pending
                             /\ log'.retries = log.retries + 1 ]_vars

\* C13 is reached: the first request failed with 404 and was retried, the
\* second failed with 401 and the prober returned success
C13_Witness ==
    /\ log.last = [kind |-> "error", status |-> 401]
    /\ log.retries = 1
    /\ Connected(p)
    /\ p.i = 1
    /\ failed = <<>>

\* run() has a created deployment whose state is not error
CreatedOK == commitDeployment # NoDeployment /\ commitDeployment.state # "error"

\* C14: with a created deployment whose state is not error the events come
\* strictly in this order: the Creation Waiter resolves with the deployment,
\* then the Readiness Waiter is started, and only once it has resolved the
\* prober probes https://<id>--<name>.netlify.app with the configured
\* readiness timeout, 60 when none (or none that is a positive number) is
\* configured.  No probe is started or issued unless the Readiness Waiter has
\* resolved, and no waiter is started before the Creation Waiter resolved.
C14_OrderOnCreatedOK ==
    /\ MAX_READY_TIMEOUT("") = 60 /\ MAX_READY_TIMEOUT("abc") = 60 /\ MAX_READY_TIMEOUT("7") = 7
    /\ (r # NoSession \/ p # NoProbe) => c.outcome.kind = "resolved"
    /\ CreatedOK =>
          /\ c.outcome = Resolved(commitDeployment)
          /\ r # NoSession
          /\ url = <<"https://", commitDeployment.id, "--", commitDeployment.name, ".netlify.app">>
          /\ pc \in {"awaitReadiness", "awaitProbe", "done"}
          /\ pc = "awaitReadiness" => p = NoProbe
          /\ pc = "awaitProbe" => p # NoProbe
          /\ r.outcome.kind # "resolved" => p = NoProbe /\ log.probes = <<>>
          /\ p # NoProbe =>
                /\ r.outcome = Resolved(undefined)
                /\ p.url = url
                /\ p.budget = maxReady
                /\ maxReady \in {60, 7}
                /\ ~p.flag
          /\ \A i \in 1..Len(log.probes) : log.probes[i] = url

\* C14 is reached: the deployment d1 was created in state building, the
\* Readiness Waiter resolved, and the first probe of its URL is out with the
\* default timeout
C14_Witness ==
    /\ CreatedOK
    /\ pc = "awaitProbe"
    /\ r.outcome = Resolved(undefined)
    /\ log.probes = << <<"https://", "d1", "--", "site", ".netlify.app">> >>
    /\ p.phase = "fetching"
    /\ p.budget = 60

\* the fallback probe failed: the skip path of lines 155-162
Skipped == NoContentPath /\ p.flag /\ p.outcome.kind = "rejected" /\ pc = "done"

\* C15: a run that goes past the creation branch without skipping (it starts
\* the Readiness Waiter) has published deploy_id and url, once each and to the
\* deployment's id and the URL in use, and never publishes nopreview; a run
\* that ends before that publishes neither; nopreview = 1 is published on the
\* no-content-change skip path and only there; no run publishes nopreview
\* together with deploy_id or url.
C15_OutputsFollowPath ==
    /\ r # NoSession =>
          /\ outputs.deploy_id = <<commitDeployment.id>>
          /\ outputs.url = <<url>>
          /\ outputs.nopreview = <<>>
    /\ r = NoSession => outputs.deploy_id = <<>> /\ outputs.url = <<>>
    /\ outputs.nopreview # <<>> => outputs.nopreview = <<1>> /\ Skipped
    /\ Skipped => outputs.nopreview = <<1>> /\ r = NoSession
    /\ ~(outputs.nopreview # <<>> /\ (outputs.deploy_id # <<>> \/ outputs.url # <<>>))

\* C15 is reached: a run is over without a failure, with the deployment d1
\* found, ready and reachable, and with deploy_id and url as its outputs
C15_Witness ==
    /\ pc = "done"
    /\ failed = <<>>
    /\ Connected(p)
    /\ outputs = [deploy_id |-> <<"d1">>, url |-> <<DeployUrl(commitDeployment)>>,
                  nopreview |-> <<>>]

\* the failures reported so far that are of a fatal kind: all but the prober's
\* own timeout report
FatalReports == {i \in 1..Len(failed) : failed[i] # ProbeTimeoutMessage(url)}

\* the failures reported so far for a missing setting
ConfigReports == {i \in 1..Len(failed) : failed[i] \in ConfigMessages}

\* C16 as stated: every failure of a fatal kind (ConfigurationMissing,
\* NotFound, Timeout, DeploymentError) was reported by the one top-level catch
\* and has ended the run.
C16_AllFatalThroughCatch ==
    FatalReports # {} => pc = "done" /\ caught = Cardinality(FatalReports)

\* C16 as amended: NotFound, Timeout (of either waiter) and DeploymentError
\* funnel to the one top-level catch, which is entered at most once, reports
\* the plain message when the error is a string and the error's message field
\* otherwise, and ends the run with no later waiter or prober started;
\* ConfigurationMissing does not: it is reported where it is found, before the
\* first waiter, without entering the catch.
C16_FatalThroughCatch ==
    /\ caught <= 1
    /\ caught = Cardinality(FatalReports \ ConfigReports)
    /\ \A i \in ConfigReports : i <= Cardinality(ConfigReports)
    /\ (pc # "awaitCreation" /\ c.outcome.kind = "rejected") => caught = 1
    /\ (pc # "awaitReadiness" /\ r.outcome.kind = "rejected") => caught = 1
    /\ ErrorPath => caught = 1
    /\ caught = 1 =>
          /\ pc = "done"
          /\ LET m == failed[Len(failed)] IN
                \/ /\ c.outcome = Rejected(StringError(m))
                   /\ m \in {CreationNotFoundMessage, CreationTimeoutMessage(MAX_CREATE_TIMEOUT)}
                   /\ commitDeployment = NoDeployment
                   /\ r = NoSession /\ p = NoProbe
                \/ /\ ErrorPath
                   /\ m = <<commitDeployment.error_message>>
                   /\ r = NoSession /\ p = NoProbe
                \/ /\ r.outcome = Rejected(StringError(m))
                   /\ \E st \in DeployStates \cup {undefined} :
                         m = ReadinessTimeoutMessage(MAX_WAIT_TIMEOUT, st)
                   /\ p = NoProbe \/ (p.flag /\ Len(log.probes) = 1)

\* C16 is reached: site_id was missing, which was reported without the catch,
\* and then the listing came back empty-handed: NotFound went through the
\* catch and ended the run before any later waiter
C16_Witness ==
    /\ pc = "done"
    /\ caught = 1
    /\ failed = <<SiteMissingMessage, CreationNotFoundMessage>>
    /\ r = NoSession
    /\ p = NoProbe

\* message m is among the failures reported
Reported(m) == \E i \in 1..Len(failed) : failed[i] = m

\* C17: when a required setting is absent the failure is reported to the
\* failure sink before any fetch is issued, and the run stays marked failed
\* (a report is never taken back); execution does not halt: the step that
\* reports starts the Creation Waiter all the same, without entering the
\* catch, and the run may go on to poll, probe and publish outputs.
C17_ConfigurationMissingGoesOn ==
    /\ [](pc # "start" =>
            /\ commitSha = undefined <=> Reported(ShaMissingMessage)
            /\ \A i \in ConfigReports : i <= Cardinality(ConfigReports))
    /\ [][ /\ Len(failed') >= Len(failed)
           /\ SubSeq(failed', 1, Len(failed)) = failed
           /\ pc = "start" =>
                 /\ pc' = "awaitCreation"
                 /\ c' = StartSession
                 /\ c'.timer /\ c'.fetches = 0 /\ c'.pending = 0
                 /\ log'.probes = <<>>
                 /\ caught' = 0
                 /\ \A i \in 1..Len(failed') : failed'[i] \in ConfigMessages
           /\ pc # "start" =>
                 \A i \in (Len(failed) + 1)..Len(failed') : failed'[i] \notin ConfigMessages
       ]_vars

\* C17 is reached: NETLIFY_TOKEN was missing and reported, and the run went on
\* to find the deployment, to see it ready, to reach its URL and to publish
\* deploy_id and url
C17_Witness ==
    /\ pc = "done"
    /\ failed = <<TokenMissingMessage>>
    /\ caught = 0
    /\ Connected(p)
    /\ outputs.deploy_id # <<>>
    /\ outputs.url # <<>>

\* the most fetches a waiter can issue: one per tick before the tick on which
\* elapsed reaches the budget, ceil(budget / interval) - 1
MostFetches(MAX_TIMEOUT, increment) == (MAX_TIMEOUT + increment - 1) \div increment - 1

\* a tick of a waiter, from session s to session t, with its interval and
\* budget: the interval is added and the timeout is tested before anything is
\* fetched; on the timeout tick no fetch is issued, the timer is cleared and an
\* unsettled waiter rejects, whatever the endpoint would have answered
TickTestsFirst(s, t, increment, MAX_TIMEOUT) ==
    (s.timer /\ t.elapsed > s.elapsed) =>
        /\ t.elapsed = s.elapsed + increment
        /\ IF t.elapsed >= MAX_TIMEOUT
           THEN /\ t.fetches = s.fetches
                /\ t.pending = s.pending
                /\ ~t.timer
                /\ t.outcome.kind # "pending"
                /\ s.outcome = Pending => t.outcome.kind = "rejected"
           ELSE /\ t.fetches = s.fetches + 1
                /\ t.timer
                /\ t.outcome = s.outcome

\* C18: every tick adds the interval to the elapsed counter and tests the
\* timeout before it fetches; on the tick where elapsed reaches the budget no
\* fetch is issued, so a waiter issues at most ceil(budget / interval) - 1
\* fetches: 19 listing fetches for 300 / 15 and 29 single-record fetches for
\* 900 / 30; what the endpoint holds on that tick is not fetched and the
\* outcome is Timeout.
C18_TimeoutBeforeFetch ==
    /\ [](/\ MostFetches(MAX_CREATE_TIMEOUT, CreationIncrement) = 19
          /\ MostFetches(MAX_WAIT_TIMEOUT, ReadinessIncrement) = 29
          /\ c.fetches <= 19
          /\ r.fetches <= 29
          /\ c.timer => c.elapsed < 300 /\ c.fetches * 15 = c.elapsed
          /\ r.timer => r.elapsed < 900 /\ r.fetches * 30 = r.elapsed
          /\ (r.elapsed >= 900 /\ r.outcome.kind = "rejected") =>
                \E st \in DeployStates \cup {undefined} :
                   r.outcome.error = StringError(ReadinessTimeoutMessage(900, st)))
    /\ [][ /\ TickTestsFirst(c, c', 15, 300)
           /\ TickTestsFirst(r, r', 30, 900) ]_vars

\* C18 is reached: the Readiness Waiter has fetched 29 times, each fetch that
\* came back said building, one is still out, and the tick at 900 seconds has
\* rejected with Timeout without fetching
C18_Witness ==
    /\ pc = "awaitReadiness"
    /\ r.elapsed = 900
    /\ r.fetches = 29
    /\ r.pending = 1
    /\ ~r.timer
    /\ r.state = "building"
    /\ r.outcome = Rejected(StringError(ReadinessTimeoutMessage(900, "building")))

\* C19: each waiter settles at most once and its first settlement is final
\* under every interleaving of ticks and fetch completions: a fetch still in
\* flight when a tick rejects with Timeout, and that later comes back with a
\* match or a ready state, does not turn the outcome into a success; run()
\* acts on the first outcome only: it takes each waiter's outcome once, and
\* the deployment it holds is the one the Creation Waiter first resolved with.
C19_FirstSettlementFinal ==
    /\ [](/\ commitDeployment # NoDeployment => c.outcome = Resolved(commitDeployment)
          /\ (pc \notin {"start", "awaitCreation"} /\ commitDeployment = NoDeployment) =>
                c.outcome.kind = "rejected" /\ caught = 1 /\ pc = "done"
          /\ (pc \in {"awaitProbe"} \/ (pc = "done" /\ p # NoProbe /\ ~p.flag)) =>
                r.outcome = Resolved(undefined))
    /\ [][ /\ c.outcome # Pending => c'.outcome = c.outcome
           /\ r.outcome # Pending => r'.outcome = r.outcome
           /\ commitDeployment # NoDeployment => commitDeployment' = commitDeployment
           /\ caught' >= caught
           /\ pc' # pc => \/ pc = "start" /\ pc' = "awaitCreation"
                          \/ pc = "awaitCreation" /\ pc' \in {"awaitFallbackProbe", "awaitReadiness", "done"}
                          \/ pc = "awaitFallbackProbe" /\ pc' \in {"awaitReadiness", "done"}
                          \/ pc = "awaitReadiness" /\ pc' \in {"awaitProbe", "done"}
                          \/ pc = "awaitProbe" /\ pc' = "done"
       ]_vars

\* C19 is reached: the Creation Waiter rejected with Timeout while a fetch was
\* out, run() ended through its catch, and the fetch came back with a record
\* of the commit afterwards: the outcome is still the Timeout
C19_Witness ==
    /\ pc = "done"
    /\ c.outcome = Rejected(StringError(CreationTimeoutMessage(MAX_CREATE_TIMEOUT)))
    /\ log.match # NoDeployment
    /\ commitDeployment = NoDeployment
    /\ caught = 1
    /\ c.pending = 0

\* session s after one of its fetches in flight has thrown inside its tick:
\* the waiter is as it was, with one fetch less in flight
Untouched(s, t) ==
    /\ t.outcome = s.outcome
    /\ t.timer = s.timer
    /\ t.elapsed = s.elapsed
    /\ t.state = s.state
    /\ t.pending = s.pending - 1

\* C20: a listing or single-record fetch that fails (the HTTP client throws)
\* inside a tick does not settle the waiter: wherever a fetch is in flight,
\* its failing neither resolves nor rejects, leaves the timer as it is and so
\* leaves the next tick to come; hence the Creation Waiter fails with NotFound
\* or Timeout only, and the Readiness Waiter with Timeout only.
C20_ThrownFetchSettlesNothing ==
    /\ c.pending > 0 => Untouched(c, CreationFetched(c, FetchThrow, commitSha))
    /\ r.pending > 0 => Untouched(r, ReadinessFetched(r, FetchThrow))
    /\ c.outcome.kind = "rejected" =>
          c.outcome.error \in { StringError(CreationNotFoundMessage),
                                StringError(CreationTimeoutMessage(MAX_CREATE_TIMEOUT)) }
    /\ r.outcome.kind = "rejected" =>
          \E st \in DeployStates \cup {undefined} :
             r.outcome.error = StringError(ReadinessTimeoutMessage(MAX_WAIT_TIMEOUT, st))
    /\ (c.timer /\ c.outcome = Pending /\ pc = "awaitCreation") => c.elapsed < MAX_CREATE_TIMEOUT
    /\ (r.timer /\ r.outcome = Pending /\ pc = "awaitReadiness") => r.elapsed < MAX_WAIT_TIMEOUT

\* C20 is reached: each of the 29 fetches of the Readiness Waiter has come
\* back without a state (a thrown request among the ways), none of them
\* settled the waiter or stopped the timer, and the tick at 900 seconds
\* rejected with Timeout
C20_Witness ==
    /\ pc = "awaitReadiness"
    /\ r.fetches = 29
    /\ r.pending = 0
    /\ r.state = undefined
    /\ r.outcome = Rejected(StringError(ReadinessTimeoutMessage(MAX_WAIT_TIMEOUT, undefined)))

====
